---- MODULE Spec2Model ----
(***************************************************************************)
(* Model of dumroo_admin_panel.py: the query pipeline (extractor response  *)
(* recovery, JSON parsing, access check, dataset filtering, date windows)  *)
(* and the Streamlit session around it (role select, query form, history). *)
(*                                                                         *)
(* Text is modelled at token level: an extractor response is a sequence of *)
(* lexical tokens (braces, brackets, colon, comma, JSON literals, prose    *)
(* words, the placeholder word undefined).  Python values are tagged       *)
(* records so that values of different Python types can be compared.      *)
(* Instants are integers counted in ticks, TicksPerDay ticks to a day;     *)
(* dates are day-of-month numbers of July 2025.                            *)
(***************************************************************************)
EXTENDS Integers, Sequences, FiniteSets

VARIABLES admin_role, query, response, now, result, pc, query_history, history_view

vars == <<admin_role, query, response, now, result, pc, query_history, history_view>>

-----------------------------------------------------------------------------
(* Bounds *)

TicksPerDay == 2
MaxDay == 27
MaxHistory == 6

-----------------------------------------------------------------------------
(* Python values *)

PyNone == [t |-> "None"]
PyInt(n) == [t |-> "int", v |-> n]
PyStr(s) == [t |-> "str", v |-> s]
PyList(items) == [t |-> "list", v |-> items]
PyDict(items) == [t |-> "dict", v |-> items]

\* Python ==, on the value types the parser delivers
PyEq(a, b) == a.t = b.t /\ (a.t = "None" \/ a.v = b.v)

\* str.isdigit() and int(str) on the strings the model uses for a grade
DigitStrings == {"8", "9"}

str_isdigit(s) == s \in DigitStrings

str_int(s) == CASE s = "8" -> 8 [] s = "9" -> 9

-----------------------------------------------------------------------------
(* Tokens of a response text *)

LBrace == [t |-> "{"]
RBrace == [t |-> "}"]
LBracket == [t |-> "["]
RBracket == [t |-> "]"]
Colon == [t |-> ":"]
Comma == [t |-> ","]
Word == [t |-> "word"]
Undefined == [t |-> "undefined"]
NullLit == [t |-> "null"]
NumLit(n) == [t |-> "num", v |-> n]
StrLit(s) == [t |-> "strlit", v |-> s]

\* re.search(r"\{.*\}", parsed, re.DOTALL): leftmost match, greedy, so the
\* span runs from the first "{" to the last "}" after it.
re_search(s) ==
    LET opens == {i \in 1..Len(s) : s[i].t = "{"}
        closes == {i \in 1..Len(s) : s[i].t = "}"}
    IN IF opens = {} THEN [matched |-> FALSE]
       ELSE LET first == CHOOSE i \in opens : \A j \in opens : i <= j
                after == {j \in closes : j > first}
            IN IF after = {} THEN [matched |-> FALSE]
               ELSE LET last == CHOOSE j \in after : \A k \in after : k <= j
                    IN [matched |-> TRUE, group |-> SubSeq(s, first, last)]

\* parsed.strip().replace("undefined", "")
RECURSIVE strip_replace(_)
strip_replace(s) ==
    IF s = <<>> THEN <<>>
    ELSE IF Head(s).t = "undefined" THEN strip_replace(Tail(s))
    ELSE <<Head(s)>> \o strip_replace(Tail(s))

-----------------------------------------------------------------------------
(* json.loads over tokens: recursive descent, whole input must be consumed *)

ParseFail == [ok |-> FALSE]

RECURSIVE ParseValue(_, _)
RECURSIVE ParseMembers(_, _, _)
RECURSIVE ParseElements(_, _, _)

\* after "{" or ",": expects  string ":" value  then "," or "}"
ParseMembers(s, i, acc) ==
    IF i + 2 > Len(s) THEN ParseFail
    ELSE IF s[i].t # "strlit" \/ s[i + 1].t # ":" THEN ParseFail
    ELSE LET r == ParseValue(s, i + 2)
         IN IF ~r.ok THEN ParseFail
            ELSE IF r.next > Len(s) THEN ParseFail
            ELSE LET acc2 == Append(acc, <<s[i].v, r.val>>)
                 IN IF s[r.next].t = "}"
                       THEN [ok |-> TRUE, val |-> PyDict(acc2), next |-> r.next + 1]
                    ELSE IF s[r.next].t = ","
                       THEN ParseMembers(s, r.next + 1, acc2)
                    ELSE ParseFail

\* after "[" or ",": expects  value  then "," or "]"
ParseElements(s, i, acc) ==
    LET r == ParseValue(s, i)
    IN IF ~r.ok THEN ParseFail
       ELSE IF r.next > Len(s) THEN ParseFail
       ELSE LET acc2 == Append(acc, r.val)
            IN IF s[r.next].t = "]"
                  THEN [ok |-> TRUE, val |-> PyList(acc2), next |-> r.next + 1]
               ELSE IF s[r.next].t = ","
                  THEN ParseElements(s, r.next + 1, acc2)
               ELSE ParseFail

ParseValue(s, i) ==
    IF i > Len(s) THEN ParseFail
    ELSE CASE s[i].t = "num" -> [ok |-> TRUE, val |-> PyInt(s[i].v), next |-> i + 1]
           [] s[i].t = "strlit" -> [ok |-> TRUE, val |-> PyStr(s[i].v), next |-> i + 1]
           [] s[i].t = "null" -> [ok |-> TRUE, val |-> PyNone, next |-> i + 1]
           [] s[i].t = "{" ->
                IF i + 1 <= Len(s) /\ s[i + 1].t = "}"
                   THEN [ok |-> TRUE, val |-> PyDict(<<>>), next |-> i + 2]
                   ELSE ParseMembers(s, i + 1, <<>>)
           [] s[i].t = "[" ->
                IF i + 1 <= Len(s) /\ s[i + 1].t = "]"
                   THEN [ok |-> TRUE, val |-> PyList(<<>>), next |-> i + 2]
                   ELSE ParseElements(s, i + 1, <<>>)
           [] OTHER -> ParseFail

\* json.loads: ok = FALSE stands for json.JSONDecodeError
json_loads(s) ==
    LET r == ParseValue(s, 1)
    IN IF r.ok /\ r.next = Len(s) + 1 THEN [ok |-> TRUE, val |-> r.val]
       ELSE ParseFail

\* dict.get(key): the value of the last member with that key, None if missing
dict_get(d, key) ==
    LET hits == {i \in 1..Len(d.v) : d.v[i][1] = key}
    IN IF hits = {} THEN PyNone
       ELSE d.v[CHOOSE i \in hits : \A j \in hits : j <= i][2]

-----------------------------------------------------------------------------
(* load_data: the sample dataset *)

\* pd.to_datetime of a date string: the instant at midnight of that day
to_datetime(day) == day * TicksPerDay

Student(name, grade, class, region, hw, score, quizDay, upcomingDay) ==
    [student_name |-> name, grade |-> grade, class |-> class, region |-> region,
     homework_submitted |-> hw, quiz_score |-> score,
     quiz_date |-> to_datetime(quizDay), upcoming_quiz |-> to_datetime(upcomingDay)]

load_data ==
    << Student("Alice Smith",   8, "A", "North", TRUE,  85, 10, 20),
       Student("Bob Johnson",   8, "A", "North", FALSE,  0, 10, 20),
       Student("Charlie Brown", 9, "B", "South", TRUE,  90, 17, 21),
       Student("Diana Wilson",  9, "B", "South", FALSE,  0, 17, 21),
       Student("Eve Davis",     8, "A", "North", FALSE, 75, 15, 22),
       Student("Frank Miller",  9, "B", "South", TRUE,  88, 16, 23),
       Student("Grace Lee",     8, "A", "North", TRUE,  92, 12, 24),
       Student("Hank Taylor",   9, "B", "South", FALSE,  0, 14, 25) >>

-----------------------------------------------------------------------------
(* Role-based access control *)

KnownRoles == {"grade_8_admin", "grade_9_admin"}

admin_scopes ==
    [r \in KnownRoles |->
        IF r = "grade_8_admin"
           THEN [grade |-> 8, class |-> "A", region |-> "North"]
           ELSE [grade |-> 9, class |-> "B", region |-> "South"]]

\* int(query_grade) if query_grade is not None and query_grade.isdigit()
\* else scope["grade"].  Only str has isdigit: any other non-None value
\* raises AttributeError.
effective_grade(query_grade, scope) ==
    IF query_grade.t = "None" THEN [raised |-> FALSE, value |-> PyInt(scope.grade)]
    ELSE IF query_grade.t # "str" THEN [raised |-> TRUE, exc |-> "AttributeError"]
    ELSE IF str_isdigit(query_grade.v)
            THEN [raised |-> FALSE, value |-> PyInt(str_int(query_grade.v))]
            ELSE [raised |-> FALSE, value |-> PyInt(scope.grade)]

\* query_x if query_x is not None else scope[x]
effective_field(query_value, scope_value) ==
    IF query_value.t # "None" THEN query_value ELSE PyStr(scope_value)

\* variant: the comparison with the scope is dropped, any role with a scope is granted
check_access_always(role, query_grade, query_class, query_region) ==
    IF role \notin DOMAIN admin_scopes THEN [raised |-> FALSE, value |-> FALSE]
    ELSE LET g == effective_grade(query_grade, admin_scopes[role])
         IN IF g.raised THEN g ELSE [raised |-> FALSE, value |-> TRUE]

check_access(role, query_grade, query_class, query_region) ==
    IF role \notin DOMAIN admin_scopes THEN [raised |-> FALSE, value |-> FALSE]
    ELSE LET scope == admin_scopes[role]
             g == effective_grade(query_grade, scope)
         IN IF g.raised THEN g
            ELSE [raised |-> FALSE,
                  value |-> /\ PyEq(g.value, PyInt(scope.grade))
                            /\ PyEq(effective_field(query_class, scope.class), PyStr(scope.class))
                            /\ PyEq(effective_field(query_region, scope.region), PyStr(scope.region))]

-----------------------------------------------------------------------------
(* process_query *)

\* a pandas DataFrame: its column names and its rows
DataFrame(columns, rows) == [columns |-> columns, rows |-> rows]

MessageFrame(text) == DataFrame(<<"Message">>, << [Message |-> text] >>)

ErrorFrame(text, detail) == DataFrame(<<"Error">>, << [Error |-> text, detail |-> detail] >>)

AccessDeniedText == "Access denied: You don't have permission to view this data."

\* variant: the emptiness test is dropped
non_empty_never(columns, rows, text) == DataFrame(columns, rows)

\* result if not result.empty else pd.DataFrame({"Message": [text]})
non_empty_or(columns, rows, text) ==
    IF rows # <<>> THEN DataFrame(columns, rows) ELSE MessageFrame(text)

\* df[(df["grade"] == ...) & (df["class"] == ...) & (df["region"] == ...)]
filter_scope(df, grade, class, region) ==
    LET keep(rec) == /\ PyEq(PyInt(rec.grade), grade)
                     /\ PyEq(PyStr(rec.class), class)
                     /\ PyEq(PyStr(rec.region), region)
    IN SelectSeq(df, keep)

homework_branch(filtered_df) ==
    LET pending(rec) == rec.homework_submitted = FALSE
        sel == SelectSeq(filtered_df, pending)
    IN non_empty_or(<<"student_name">>,
                    [i \in 1..Len(sel) |-> [student_name |-> sel[i].student_name]],
                    "All homework submitted")

\* both bounds come from datetime.now(); the two calls are taken at one instant
performance_branch(filtered_df, t) ==
    LET last_week_start == t - 7 * TicksPerDay
        last_week_end == t - 1 * TicksPerDay
        inwin(rec) == rec.quiz_date >= last_week_start /\ rec.quiz_date <= last_week_end
        sel == SelectSeq(filtered_df, inwin)
    IN non_empty_or(<<"student_name", "quiz_score">>,
                    [i \in 1..Len(sel) |-> [student_name |-> sel[i].student_name,
                                            quiz_score |-> sel[i].quiz_score]],
                    "No performance data for last week")

quizzes_branch(filtered_df, t) ==
    LET next_week_start == t + 1 * TicksPerDay
        next_week_end == t + 7 * TicksPerDay
        inwin(rec) == rec.upcoming_quiz >= next_week_start /\ rec.upcoming_quiz <= next_week_end
        sel == SelectSeq(filtered_df, inwin)
    IN non_empty_or(<<"student_name", "upcoming_quiz">>,
                    [i \in 1..Len(sel) |-> [student_name |-> sel[i].student_name,
                                            upcoming_quiz |-> sel[i].upcoming_quiz]],
                    "No quizzes scheduled for next week")

\* variant: the performance branch has an else of its own
resolve_no_data(filtered_df, data_type, time_period, t) ==
    IF PyEq(data_type, PyStr("homework")) THEN homework_branch(filtered_df)
    ELSE IF PyEq(data_type, PyStr("performance"))
         THEN IF PyEq(time_period, PyStr("last week"))
                 THEN performance_branch(filtered_df, t)
                 ELSE MessageFrame("No performance data for last week")
    ELSE IF PyEq(data_type, PyStr("quizzes")) /\ PyEq(time_period, PyStr("next week"))
         THEN quizzes_branch(filtered_df, t)
    ELSE MessageFrame("Unable to process query")

\* the if/elif chain on data_type; a branch whose inner if fails falls
\* through to the final return
resolve(filtered_df, data_type, time_period, t) ==
    IF PyEq(data_type, PyStr("homework")) THEN homework_branch(filtered_df)
    ELSE IF PyEq(data_type, PyStr("performance")) /\ PyEq(time_period, PyStr("last week"))
         THEN performance_branch(filtered_df, t)
    ELSE IF PyEq(data_type, PyStr("quizzes")) /\ PyEq(time_period, PyStr("next week"))
         THEN quizzes_branch(filtered_df, t)
    ELSE MessageFrame("Unable to process query")

\* the text handed to json.loads
clean_response(raw) ==
    LET m == re_search(raw)
    IN IF m.matched THEN m.group ELSE strip_replace(raw)

process_query(raw, role, t) ==
    LET parsed == clean_response(raw)
        j == json_loads(parsed)
    IN IF ~j.ok THEN ErrorFrame("Invalid JSON response from AI", parsed)
       ELSE IF j.val.t # "dict" THEN ErrorFrame("Error processing query", "AttributeError")
       ELSE LET data_type == dict_get(j.val, "data_type")
                query_grade == dict_get(j.val, "grade")
                query_class == dict_get(j.val, "class")
                query_region == dict_get(j.val, "region")
                time_period == dict_get(j.val, "time_period")
                access == check_access(role, query_grade, query_class, query_region)
            IN IF access.raised THEN ErrorFrame("Error processing query", access.exc)
               ELSE IF ~access.value THEN MessageFrame(AccessDeniedText)
               ELSE LET scope == admin_scopes[role]
                        g == effective_grade(query_grade, scope)
                    IN IF g.raised THEN ErrorFrame("Error processing query", g.exc)
                       ELSE resolve(filter_scope(load_data, g.value,
                                                 effective_field(query_class, scope.class),
                                                 effective_field(query_region, scope.region)),
                                    data_type, time_period, t)

-----------------------------------------------------------------------------
(* Extractor responses and the other inputs of process_query *)

Omitted == [t |-> "omitted"]

\* the tokens of the members  "key": value  whose value is not omitted
RECURSIVE MembersText(_)
MembersText(fields) ==
    IF fields = <<>> THEN <<>>
    ELSE LET f == Head(fields)
             rest == MembersText(Tail(fields))
         IN IF f[2].t = "omitted" THEN rest
            ELSE <<StrLit(f[1]), Colon, f[2]>> \o (IF rest = <<>> THEN <<>> ELSE <<Comma>> \o rest)

\* the JSON object the prompt asks for
ObjectText(data_type, grade, class, region, time_period) ==
    <<LBrace>> \o MembersText(<< <<"data_type", data_type>>, <<"grade", grade>>,
                                <<"class", class>>, <<"region", region>>,
                                <<"time_period", time_period>> >>) \o <<RBrace>>

DataTypeTokens == {Omitted, StrLit("homework"), StrLit("performance"), StrLit("quizzes"),
                   StrLit("attendance")}

GradeTokens == {Omitted, NullLit, NumLit(8), NumLit(9), StrLit("8"), StrLit("9"), StrLit("eight")}

ClassTokens == {Omitted, StrLit("A"), StrLit("B")}

RegionTokens == {Omitted, StrLit("North"), StrLit("South")}

TimePeriodTokens == {Omitted, StrLit("last week"), StrLit("next week"), StrLit("this week")}

AllRoles == KnownRoles \cup {"grade_10_admin"}

Instants(days) == {to_datetime(d) + k : d \in days, k \in 0..(TicksPerDay - 1)}

\* every intent, for every role, on a day whose windows hold records of both scopes
AccessInputs ==
    {[role |-> r, response |-> ObjectText(dt, g, c, rg, tp), now |-> t] :
        r \in AllRoles, dt \in DataTypeTokens, g \in GradeTokens, c \in ClassTokens,
        rg \in RegionTokens, tp \in TimePeriodTokens, t \in Instants({18})}

\* the windowed queries at every instant around the dataset's dates
WindowInputs ==
    {[role |-> r, response |-> ObjectText(dt, Omitted, Omitted, Omitted, tp), now |-> t] :
        r \in KnownRoles, dt \in {StrLit("performance"), StrLit("quizzes")},
        tp \in TimePeriodTokens, t \in Instants(1..MaxDay)}

\* prose around the object: none, plain words, words with braces in them
ProseBefore == {<<>>, <<Word>>, <<Word, LBrace, Word, RBrace, Word>>}

ProseAfter == {<<>>, <<Word>>, <<Word, LBrace, Word, RBrace>>, <<Word, LBrace>>, <<Word, RBrace>>}

WrappedObjects ==
    {ObjectText(StrLit("homework"), Omitted, Omitted, Omitted, Omitted),
     ObjectText(StrLit("performance"), StrLit("8"), Omitted, Omitted, StrLit("last week")),
     <<LBrace, RBrace>>,
     <<LBrace, StrLit("grade"), Colon, LBrace, RBrace, RBrace>>,
     <<LBrace, StrLit("grade"), Colon, LBracket, NumLit(8), RBracket, RBrace>>}

\* responses holding no JSON object, or no valid JSON
MalformedResponses ==
    {<<>>, <<Word>>, <<Word, Word>>, <<Undefined>>, <<NumLit(42)>>, <<StrLit("homework")>>,
     <<NullLit>>, <<LBracket, RBracket>>, <<LBracket, NumLit(8), Comma, NumLit(9), RBracket>>,
     <<LBracket, Undefined, RBracket>>, <<LBracket, NumLit(8), Comma, RBracket>>,
     <<LBrace>>, <<RBrace, Word, LBrace>>, <<LBrace, Word, RBrace>>,
     <<LBrace, StrLit("grade"), RBrace>>,
     <<LBrace, StrLit("grade"), Colon, NumLit(8), Comma, RBrace>>,
     <<LBrace, StrLit("grade"), Colon, Undefined, RBrace>>}

ParseInputs ==
    {[role |-> r, response |-> b \o o \o a, now |-> t] :
        r \in KnownRoles, b \in ProseBefore, o \in WrappedObjects, a \in ProseAfter,
        t \in Instants({18})}
    \cup
    {[role |-> r, response |-> m, now |-> t] :
        r \in KnownRoles, m \in MalformedResponses, t \in Instants({18})}

Inputs == AccessInputs \cup WindowInputs \cup ParseInputs

-----------------------------------------------------------------------------
(* The Streamlit session *)

HistoryShown == 5

NoFrame == DataFrame(<<>>, <<>>)

\* "query_history" not in st.session_state
NoHistory == [present |-> FALSE, items |-> <<>>]

\* variant: the list is re-created on every submission
history_append_fresh(history, entry) == [present |-> TRUE, items |-> <<entry>>]

\* if "query_history" not in st.session_state: ... = [] ; then append
history_append(history, entry) ==
    [present |-> TRUE,
     items |-> Append(IF history.present THEN history.items ELSE <<>>, entry)]

\* enumerate(reversed(query_history[-5:])), labelled len(query_history) - i
render_history(history) ==
    IF ~history.present \/ history.items = <<>> THEN <<>>
    ELSE LET n == Len(history.items)
             first == IF n > HistoryShown THEN n - HistoryShown + 1 ELSE 1
             last5 == SubSeq(history.items, first, n)
             m == Len(last5)
         IN [k \in 1..m |->
                [label |-> n - (k - 1),
                 query |-> last5[m - k + 1].query,
                 result |-> last5[m - k + 1].result]]

-----------------------------------------------------------------------------
(* process_query called on its own, on every input *)

Init ==
    /\ \E inp \in Inputs :
          /\ admin_role = inp.role
          /\ response = inp.response
          /\ now = inp.now
    /\ query = "q"
    /\ result = NoFrame
    /\ pc = "call"
    /\ query_history = NoHistory
    /\ history_view = <<>>

Call ==
    /\ pc = "call"
    /\ result' = process_query(response, admin_role, now)
    /\ pc' = "done"
    /\ UNCHANGED <<admin_role, query, response, now, query_history, history_view>>

Next == Call

Spec == Init /\ [][Next]_vars

-----------------------------------------------------------------------------
(* The session: role select box, query form, history *)

SessionQueries == {"", "q"}

SessionResponses ==
    {ObjectText(StrLit("homework"), Omitted, Omitted, Omitted, Omitted),
     ObjectText(StrLit("homework"), StrLit("9"), Omitted, Omitted, Omitted),
     <<NumLit(42)>>}

SessionInit ==
    /\ admin_role = "grade_8_admin"
    /\ query = ""
    /\ response = <<>>
    /\ now = to_datetime(18)
    /\ result = NoFrame
    /\ pc = "idle"
    /\ query_history = NoHistory
    /\ history_view = <<>>

\* the sidebar select box; the script reruns and redraws the history
SelectRole(r) ==
    /\ admin_role' = r
    /\ history_view' = render_history(query_history)
    /\ UNCHANGED <<query, response, now, result, pc, query_history>>

\* the form is submitted: if submit_button and query: ...; then the history
\* is drawn.  raw is what the extractor answers and t the time of the call;
\* both are locals of process_query and are not kept in the session.
SubmitForm(q, raw, t) ==
    /\ query' = q
    /\ IF q # ""
          THEN /\ Len(query_history.items) < MaxHistory
               /\ result' = process_query(raw, admin_role, t)
               /\ query_history' = history_append(query_history, [query |-> q, result |-> result'])
          ELSE UNCHANGED <<result, query_history>>
    /\ history_view' = render_history(query_history')
    /\ UNCHANGED <<admin_role, response, now, pc>>

SessionNext ==
    \/ \E r \in KnownRoles : SelectRole(r)
    \/ \E q \in SessionQueries \ {""}, raw \in SessionResponses, t \in Instants({18}) :
          SubmitForm(q, raw, t)
    \/ SubmitForm("", <<>>, now)

SpecSession == SessionInit /\ [][SessionNext]_vars

-----------------------------------------------------------------------------
(* Vocabulary of the properties *)

IsStudentTable(df) == df.columns # <<>> /\ df.columns[1] = "student_name"

IsMessage(df, text) == df = MessageFrame(text)

IsInvalidJson(df) ==
    df.columns = <<"Error">> /\ Len(df.rows) = 1
    /\ df.rows[1].Error = "Invalid JSON response from AI"

\* the record of the dataset is among the rows of the table
Selected(df, rec) ==
    IsStudentTable(df) /\ \E i \in 1..Len(df.rows) : df.rows[i].student_name = rec.student_name

InScope(rec, role) ==
    /\ role \in DOMAIN admin_scopes
    /\ rec.grade = admin_scopes[role].grade
    /\ rec.class = admin_scopes[role].class
    /\ rec.region = admin_scopes[role].region

Records == {load_data[i] : i \in 1..Len(load_data)}

\* the parsed intent of the response held in the state, when it parses to an object
HasIntent == LET j == json_loads(clean_response(response)) IN j.ok /\ j.val.t = "dict"

IntentField(key) == dict_get(json_loads(clean_response(response)).val, key)

Access == check_access(admin_role, IntentField("grade"), IntentField("class"), IntentField("region"))

Authorized == HasIntent /\ ~Access.raised /\ Access.value

Today == now \div TicksPerDay

DayOf(instant) == instant \div TicksPerDay

-----------------------------------------------------------------------------
(* C1 *)

\* C1: every student row process_query returns belongs to a record of the
\* calling role's own (grade, class, region) cell; a role without a scope
\* gets no student row.
C1_ScopeConfinement ==
    pc = "done" /\ IsStudentTable(result) =>
        /\ admin_role \in DOMAIN admin_scopes
        /\ \A i \in 1..Len(result.rows) : \A rec \in Records :
              rec.student_name = result.rows[i].student_name => InScope(rec, admin_role)

C1_Witness ==
    /\ pc = "done"
    /\ admin_role = "grade_9_admin"
    /\ response = ObjectText(StrLit("quizzes"), StrLit("9"), StrLit("B"), Omitted, StrLit("next week"))
    /\ IsStudentTable(result)
    /\ Len(result.rows) = 4

-----------------------------------------------------------------------------
(* C2 *)

GradeIs(value, n) ==
    \/ PyEq(value, PyInt(n))
    \/ value.t = "str" /\ str_isdigit(value.v) /\ str_int(value.v) = n

\* C2: check_access returns True when each of grade, class, region is absent
\* or equal to the role's scope value, and returns False when a present field
\* differs from it, in whatever representation the grade arrives.
C2_GrantsIffMatch ==
    pc = "done" /\ HasIntent /\ admin_role \in DOMAIN admin_scopes =>
        LET scope == admin_scopes[admin_role]
            g == IntentField("grade")
            c == IntentField("class")
            r == IntentField("region")
            matches == /\ (g.t = "None" \/ GradeIs(g, scope.grade))
                       /\ (c.t = "None" \/ PyEq(c, PyStr(scope.class)))
                       /\ (r.t = "None" \/ PyEq(r, PyStr(scope.region)))
        IN /\ ~Access.raised
           /\ Access.value = matches

-----------------------------------------------------------------------------
(* C3 *)

GradeEightResponses ==
    {ObjectText(dt, g, c, rg, tp) :
        dt \in DataTypeTokens, g \in {NumLit(8), StrLit("8")}, c \in ClassTokens,
        rg \in RegionTokens, tp \in TimePeriodTokens}

\* C3: grade_9_admin asking with an explicit grade 8 gets the access-denied
\* message, whichever JSON value carries the 8.
C3_Grade9AskingGrade8Denied ==
    pc = "done" /\ admin_role = "grade_9_admin" /\ response \in GradeEightResponses =>
        IsMessage(result, AccessDeniedText)

-----------------------------------------------------------------------------
(* C4 *)

\* C4: a response that holds no JSON object, or no valid JSON, ends in the
\* "Invalid JSON response from AI" error row.
C4_MalformedIsInvalidJson ==
    pc = "done" /\ response \in MalformedResponses => IsInvalidJson(result)

-----------------------------------------------------------------------------
(* C5 *)

PlainBefore == {b \in ProseBefore : \A i \in 1..Len(b) : b[i].t = "word"}

\* C5: a valid object with prose before or after it, braces in the trailing
\* prose included, is reduced to the object, parsed, and taken to the access
\* check.
C5_ObjectRecovered ==
    pc = "done" =>
        \A b \in PlainBefore, o \in WrappedObjects, a \in ProseAfter :
            response = b \o o \o a =>
                /\ clean_response(response) = o
                /\ ~IsInvalidJson(result)

-----------------------------------------------------------------------------
(* C6 *)

\* C6: for performance / last week, at any time of day, the records of the
\* role's cell that are selected are exactly those whose quiz_date is 7 to 1
\* days before today.
C6_LastWeekWindow ==
    /\ pc = "done"
    /\ admin_role \in DOMAIN admin_scopes
    /\ response = ObjectText(StrLit("performance"), Omitted, Omitted, Omitted, StrLit("last week"))
    => \A rec \in Records : InScope(rec, admin_role) =>
          (Selected(result, rec) <=> DayOf(rec.quiz_date) \in (Today - 7)..(Today - 1))

-----------------------------------------------------------------------------
(* C7 *)

\* C7: for quizzes / next week, at any time of day, the records of the role's
\* cell that are selected are exactly those whose upcoming_quiz is 1 to 7 days
\* after today.
C7_NextWeekWindow ==
    /\ pc = "done"
    /\ admin_role \in DOMAIN admin_scopes
    /\ response = ObjectText(StrLit("quizzes"), Omitted, Omitted, Omitted, StrLit("next week"))
    => \A rec \in Records : InScope(rec, admin_role) =>
          (Selected(result, rec) <=> DayOf(rec.upcoming_quiz) \in (Today + 1)..(Today + 7))

-----------------------------------------------------------------------------
(* C8 *)

PerformanceOtherPeriod ==
    /\ pc = "done"
    /\ Authorized
    /\ PyEq(IntentField("data_type"), PyStr("performance"))
    /\ ~PyEq(IntentField("time_period"), PyStr("last week"))

\* C8 as stated: an authorized performance query with a time_period other than
\* "last week" gets a message of its own, not "Unable to process query".
C8_OwnMessage ==
    PerformanceOtherPeriod =>
        /\ result.columns = <<"Message">>
        /\ Len(result.rows) = 1
        /\ result.rows[1].Message # "Unable to process query"

\* C8 amended: an authorized performance query with a time_period other than
\* "last week" (absent included) gets the single message "Unable to process
\* query", the same as an unknown data_type, and no student rows.
C8_FallsThrough ==
    PerformanceOtherPeriod => IsMessage(result, "Unable to process query")

C8_Witness ==
    /\ pc = "done"
    /\ admin_role = "grade_8_admin"
    /\ response = ObjectText(StrLit("performance"), StrLit("8"), Omitted, Omitted, Omitted)
    /\ IsMessage(result, "Unable to process query")

-----------------------------------------------------------------------------
(* C9 *)

ProjectionOf(data_type) ==
    CASE PyEq(data_type, PyStr("homework")) -> <<"student_name">>
      [] PyEq(data_type, PyStr("performance")) -> <<"student_name", "quiz_score">>
      [] PyEq(data_type, PyStr("quizzes")) -> <<"student_name", "upcoming_quiz">>
      [] OTHER -> <<>>

-----------------------------------------------------------------------------
(* C10 *)

Items == query_history.items

IsSubmission ==
    \E q \in SessionQueries \ {""}, raw \in SessionResponses, t \in Instants({18}) :
        SubmitForm(q, raw, t)

ViewShowsLastFive(history, view) ==
    LET n == Len(history.items)
    IN /\ Len(view) = IF n < HistoryShown THEN n ELSE HistoryShown
       /\ \A k \in 1..Len(view) :
             /\ view[k].label = n - k + 1
             /\ view[k].query = history.items[n - k + 1].query
             /\ view[k].result = history.items[n - k + 1].result

\* C10: a submission with a non-empty query appends exactly its own
\* (query, result) pair to the history and every other step leaves the
\* history as it is, so earlier entries are never removed, reordered or
\* altered; the history drawn is the last 5 entries, newest first, each
\* labelled with its position in the log.
C10_AppendOnlyHistory ==
    [][ /\ IF IsSubmission
              THEN Items' = Append(Items, [query |-> query', result |-> result'])
              ELSE Items' = Items
        /\ ViewShowsLastFive(query_history', history_view') ]_vars

C10_Witness ==
    /\ Len(Items) > HistoryShown
    /\ Items[1].result.columns = <<"Error">>
    /\ IsMessage(Items[2].result, AccessDeniedText)
    /\ IsStudentTable(Items[3].result)
    /\ IsStudentTable(Items[Len(Items)].result)
    /\ Len(history_view) = HistoryShown
    /\ history_view[1].label = Len(Items)

====
